---- MODULE Spec2Model ----
(***************************************************************************)
(* A model of google-ad-transparency-scraper:                              *)
(*   - extractors/youtube_metadata.py: _extract_video_id_from_url and      *)
(*     ensure_youtube_metadata,                                            *)
(*   - outputs/data_exporter.py: DataExporter.export,                      *)
(*   - main.py: process_advertiser and the aggregation loop of main.       *)
(*                                                                         *)
(* Each part has its own specification: Spec (one caller of                *)
(* ensure_youtube_metadata), SpecExtract (the extractor on every URL),     *)
(* SpecConc (concurrent callers), SpecExport (one export), SpecMain (main).*)
(*                                                                         *)
(* Text is modelled as a sequence of lexemes.  The single characters the   *)
(* code and urllib.parse split on ("/", "?", "#", "&", "=", "+", "[",     *)
(* " ") are lexemes of their own; every other lexeme is a word that holds  *)
(* none of them, and no concatenation of lexemes used here spells          *)
(* "youtube.com" or "youtu.be" except the lexeme itself.                   *)
(***************************************************************************)
EXTENDS Integers, Sequences, FiniteSets, Bags, TLC

\* ------------------------------------------------------------------------
\* Bounds of the model
\* ------------------------------------------------------------------------

\* Lexemes appended after a URL head in SpecExtract.
MaxTail == 4

\* Keys a caller sets on a variation (top level and nested together).
MaxFields == 2

\* Threads that call ensure_youtube_metadata at the same time.
NumWorkers == 2

\* Records handed to DataExporter.export.
MaxRecords == 2

\* Advertisers in the list main processes.
MaxAdvertisers == 3

\* ------------------------------------------------------------------------
\* Python values
\* ------------------------------------------------------------------------

\* A value is a kind and a payload of lexemes: "absent" is a missing key,
\* "none" is None, "str" and "bytes" carry their text, "int" carries its
\* digits, "list" carries its elements.
Absent == [k |-> "absent", s |-> <<>>]

NoneVal == [k |-> "none", s |-> <<>>]

Str(s) == [k |-> "str", s |-> s]

BytesVal(s) == [k |-> "bytes", s |-> s]

IntVal(d) == [k |-> "int", s |-> <<d>>]

ListVal(s) == [k |-> "list", s |-> s]

EmptyStr == Str(<<>>)

\* bool(v): what `v or ...` and `if v` test.
Truthy(v) ==
    CASE v.k = "str" -> v.s # <<>>
      [] v.k = "bytes" -> v.s # <<>>
      [] v.k = "list" -> v.s # <<>>
      [] v.k = "int" -> v.s # <<"0">>
      [] OTHER -> FALSE

\* a or b
Or(a, b) == IF Truthy(a) THEN a ELSE b

\* ------------------------------------------------------------------------
\* Sequence helpers for str.find, str.strip, str.split
\* ------------------------------------------------------------------------

\* Index of the first element of s at or after `from` that is in S, else 0.
FindFirst(s, S, from) ==
    LET hits == {i \in from..Len(s) : s[i] \in S}
    IN  IF hits = {} THEN 0 ELSE CHOOSE i \in hits : \A j \in hits : i <= j

\* s[i:] in Python terms, with 1-based i.
From(s, i) == SubSeq(s, i, Len(s))

\* s.lstrip(c)
RECURSIVE LStrip(_, _)
LStrip(s, c) == IF s # <<>> /\ Head(s) = c THEN LStrip(Tail(s), c) ELSE s

\* s.rstrip(c)
RECURSIVE RStrip(_, _)
RStrip(s, c) ==
    IF s # <<>> /\ s[Len(s)] = c THEN RStrip(SubSeq(s, 1, Len(s) - 1), c) ELSE s

\* s.strip(c)
Strip(s, c) == RStrip(LStrip(s, c), c)

\* s.split(c): always at least one piece.
RECURSIVE Split(_, _)
Split(s, c) ==
    LET i == FindFirst(s, {c}, 1)
    IN  IF i = 0 THEN <<s>>
        ELSE <<SubSeq(s, 1, i - 1)>> \o Split(From(s, i + 1), c)

\* s.split(c, 1): at most two pieces.
Split1(s, c) ==
    LET i == FindFirst(s, {c}, 1)
    IN  IF i = 0 THEN <<s>> ELSE <<SubSeq(s, 1, i - 1), From(s, i + 1)>>

\* s.replace(a, b) on single lexemes.
Replace(s, a, b) == [i \in 1..Len(s) |-> IF s[i] = a THEN b ELSE s[i]]

\* ------------------------------------------------------------------------
\* urllib.parse as the extractor uses it
\* ------------------------------------------------------------------------

\* Lexemes that end with ":" (a scheme and its colon).
SchemeLexemes == {"https:", "http:"}

\* Lexemes that hold a character outside urllib's scheme_chars.
NonSchemeChars == {"/", "?", "#", "&", "=", "[", "]", " "}

\* Lexemes whose first character is no ASCII letter.
NonAlphaStart == NonSchemeChars \cup {"+", "."}

\* urlsplit, last step: url.split('?', 1), and the components the extractor
\* reads; error says that urlsplit raised ValueError.
SplitQuery(invalid, netloc, rest) ==
    LET q == FindFirst(rest, {"?"}, 1)
    IN  [error |-> invalid,
         netloc |-> netloc,
         path |-> IF q = 0 THEN rest ELSE SubSeq(rest, 1, q - 1),
         query |-> IF q = 0 THEN <<>> ELSE From(rest, q + 1)]

\* urlsplit: url.split('#', 1)
SplitFragment(invalid, netloc, rest) ==
    LET h == FindFirst(rest, {"#"}, 1)
    IN  SplitQuery(invalid, netloc,
                   IF h = 0 THEN rest ELSE SubSeq(rest, 1, h - 1))

\* urlsplit: the bracket checks on the netloc.  A bracketed host made of
\* words is no IP literal, so any bracket in the netloc is a ValueError.
CheckNetloc(hasNetloc, netloc, rest) ==
    SplitFragment(hasNetloc /\ \E j \in 1..Len(netloc) : netloc[j] \in {"[", "]"},
                  netloc, rest)

\* urlsplit: if url[:2] == '//': netloc, url = _splitnetloc(url, 2)
SplitNetloc(rest) ==
    LET delim == FindFirst(rest, {"/", "?", "#"}, 3)
    IN  IF ~(Len(rest) >= 2 /\ rest[1] = "/" /\ rest[2] = "/")
        THEN CheckNetloc(FALSE, <<>>, rest)
        ELSE IF delim = 0 THEN CheckNetloc(TRUE, From(rest, 3), <<>>)
        ELSE CheckNetloc(TRUE, SubSeq(rest, 3, delim - 1), From(rest, delim))

\* urlsplit: the scheme is what precedes the first ":" when that starts
\* with a letter and holds scheme characters only.
SplitScheme(stripped) ==
    LET i == FindFirst(stripped, SchemeLexemes, 1)
    IN  IF /\ i > 0
           /\ stripped[1] \notin NonAlphaStart
           /\ \A j \in 1..(i - 1) : stripped[j] \notin NonSchemeChars
        THEN SplitNetloc(From(stripped, i + 1))
        ELSE SplitNetloc(stripped)

\* urlparse(url) for a str or (decoded) bytes text.  The lexemes hold no
\* ";", so the params component is always empty.
urlparse(text) == SplitScheme(LStrip(text, " "))

\* parse_qsl(query): the (name, value) pairs in order, blank values dropped,
\* "+" decoded to a space.
RECURSIVE PairsOf(_)
PairsOf(fields) ==
    IF fields = <<>> THEN <<>>
    ELSE LET nv == Split1(Head(fields), "=")
             rest == PairsOf(Tail(fields))
         IN  IF Head(fields) = <<>> THEN rest
             ELSE IF Len(nv) # 2 THEN rest
             ELSE IF Len(nv[2]) = 0 THEN rest
             ELSE <<[name |-> Replace(nv[1], "+", " "),
                     value |-> Replace(nv[2], "+", " ")]>> \o rest

parse_qsl(query) == IF query = <<>> THEN <<>> ELSE PairsOf(Split(query, "&"))

\* parse_qs(query).get(name, [None])[0]
QsFirst(query, name) ==
    LET pairs == parse_qsl(query)
        hits == {i \in 1..Len(pairs) : pairs[i].name = name}
    IN  IF hits = {} THEN NoneVal
        ELSE Str(pairs[CHOOSE i \in hits : \A j \in hits : i <= j].value)

\* "needle" in haystack, for a needle that is one lexeme.
Contains(haystack, needle) == \E i \in 1..Len(haystack) : haystack[i] = needle

\* ------------------------------------------------------------------------
\* _extract_video_id_from_url
\* ------------------------------------------------------------------------

Returned(v) == [raised |-> FALSE, value |-> v]

Raised == [raised |-> TRUE, value |-> NoneVal]

\* Line 34 reading segments[0] in place of segments[-1].
LastSegmentTakesFirst(segments) ==
    IF segments[1] # <<>> THEN Str(segments[1]) ELSE NoneVal

\* segments[-1] or None
LastSegmentOrNone(segments) ==
    IF segments[Len(segments)] # <<>> THEN Str(segments[Len(segments)]) ELSE NoneVal

\* segments[0] or None
FirstSegmentOrNone(segments) ==
    IF segments[1] # <<>> THEN Str(segments[1]) ELSE NoneVal

\* Lines 25-42 with parse_qs and the split of the path done.  A youtube.com
\* host that gets past line 33 falls through to the youtu.be test.
IdFrom(netloc, vid, segments) ==
    IF Contains(netloc, "youtube.com") /\ Truthy(vid) THEN vid
    ELSE IF Contains(netloc, "youtube.com") /\ segments # <<>>
         THEN LastSegmentOrNone(segments)
    ELSE IF Contains(netloc, "youtu.be") /\ segments # <<>>
         THEN FirstSegmentOrNone(segments)
    ELSE NoneVal

\* Lines 25-42 for a parsed str URL.
IdOfParsed(parsed) ==
    IdFrom(parsed.netloc,
           QsFirst(parsed.query, <<"v">>),
           Split(Strip(parsed.path, "/"), "/"))

\* Lines 22-42 once urlparse has run on a str or bytes URL: a ValueError is
\* caught at line 22; on a bytes URL the components are bytes and
\* `"youtube.com" in parsed.netloc` at line 25 raises TypeError, which
\* nothing catches.
AfterParse(kind, parsed) ==
    IF parsed.error THEN Returned(NoneVal)
    ELSE IF kind = "bytes" THEN Raised
    ELSE Returned(IdOfParsed(parsed))

\* The call: a value to return, or an exception that leaves the function.
\* urlparse raises AttributeError on a value with no decode() (int, list),
\* caught at line 22.
extract_video_id_from_url(url) ==
    IF ~Truthy(url) THEN Returned(NoneVal)
    ELSE IF url.k \notin {"str", "bytes"} THEN Returned(NoneVal)
    ELSE AfterParse(url.k, urlparse(url.s))

\* ------------------------------------------------------------------------
\* ensure_youtube_metadata
\* ------------------------------------------------------------------------

\* A variation is a dict: one field per key the code reads, "title" for any
\* other key, each a value or Absent.  youtubeMetadata is a kind ("dict"
\* for a mapping) and, for a mapping, its keys ("extra" for any other key).
TopKeys == {"youtubeUrl", "videoUrl", "url", "ctaUrl", "cta", "title"}

NestedKeys == {"adId", "youtubeUrl", "url", "ctaUrl", "cta", "extra"}

NoFields == [key \in NestedKeys |-> Absent]

NoMeta == [k |-> "absent", f |-> NoFields]

EmptyVariation ==
    [youtubeUrl |-> Absent, videoUrl |-> Absent, url |-> Absent,
     ctaUrl |-> Absent, cta |-> Absent, title |-> Absent,
     youtubeMetadata |-> NoMeta]

\* d.get(key): None for a missing key.
Get(d, key) == IF d[key].k = "absent" THEN NoneVal ELSE d[key]

\* Line 56 as a slip would write it: the legacy alias only.
NestedYoutubeUrlAliasOnly(f) == Or(Get(f, "url"), EmptyStr)

\* Line 56: existing_meta.get("youtubeUrl") or existing_meta.get("url") or ""
NestedYoutubeUrl(f) == Or(Or(Get(f, "youtubeUrl"), Get(f, "url")), EmptyStr)

\* Line 57: existing_meta.get("ctaUrl") or existing_meta.get("cta") or ""
NestedCtaUrl(f) == Or(Or(Get(f, "ctaUrl"), Get(f, "cta")), EmptyStr)

\* Lines 68-73 with videoUrl looked up before youtubeUrl.
TopYoutubeUrlVideoFirst(v) ==
    Or(Or(Or(Get(v, "videoUrl"), Get(v, "youtubeUrl")), Get(v, "url")), EmptyStr)

\* Lines 68-73: youtubeUrl or videoUrl or url or ""
TopYoutubeUrl(v) ==
    Or(Or(Or(Get(v, "youtubeUrl"), Get(v, "videoUrl")), Get(v, "url")), EmptyStr)

\* Line 74: variation.get("ctaUrl") or variation.get("cta") or ""
TopCtaUrl(v) == Or(Or(Get(v, "ctaUrl"), Get(v, "cta")), EmptyStr)

\* Lines 58 and 76, the right operand of `or`: the extractor's result or "".
ExtractedOrEmpty(e) ==
    [raised |-> e.raised, value |-> Or(e.value, EmptyStr), calls |-> 1]

\* Line 58 with the extractor run first and the existing adId as fallback.
AdIdExtractFirst(existing, youtube_url) ==
    ExtractedOrEmpty(
        IF Truthy(existing) /\ ~Truthy(extract_video_id_from_url(youtube_url).value)
        THEN Returned(existing)
        ELSE extract_video_id_from_url(youtube_url))

\* Lines 58 and 76: existing adId or _extract_video_id_from_url(url) or "".
\* `or` evaluates the call only when the existing adId is falsy; calls
\* counts the invocations of the extractor.
AdId(existing, youtube_url) ==
    IF Truthy(existing)
    THEN [raised |-> FALSE, value |-> existing, calls |-> 0]
    ELSE ExtractedOrEmpty(extract_video_id_from_url(youtube_url))

\* Lines 60-64 and 78-82: the new three-key dict.
NewMeta(ad_id, youtube_url, cta_url) ==
    [k |-> "dict",
     f |-> [NoFields EXCEPT !.adId = ad_id,
                            !.youtubeUrl = youtube_url,
                            !.ctaUrl = cta_url]]

\* Lines 60-65 and 78-83: store the new dict in the copy and return it,
\* unless the extractor raised.
Store(copy, ad, youtube_url, cta_url) ==
    [raised |-> ad.raised,
     calls |-> ad.calls,
     ret |-> [copy EXCEPT !.youtubeMetadata =
                              NewMeta(ad.value, youtube_url, cta_url)]]

\* Lines 58 and 76, then the store.
Resolve(copy, existing, youtube_url, cta_url) ==
    Store(copy, AdId(existing, youtube_url), youtube_url, cta_url)

\* Lines 53-83 on the copy made at line 51.
Reconcile(copy) ==
    IF copy.youtubeMetadata.k = "dict"
    THEN Resolve(copy,
                 Get(copy.youtubeMetadata.f, "adId"),
                 NestedYoutubeUrl(copy.youtubeMetadata.f),
                 NestedCtaUrl(copy.youtubeMetadata.f))
    ELSE Resolve(copy, NoneVal, TopYoutubeUrl(copy), TopCtaUrl(copy))

\* A call's outcome: whether it raised, what it returned, the caller's dict
\* after the call, and the extractor invocations.
Outcome(r, arg) ==
    [raised |-> r.raised, calls |-> r.calls, ret |-> r.ret, arg |-> arg]

\* Line 51 without the copy: `variation` stays the caller's dict.
Line51Alias(v) == [shared |-> TRUE, dict |-> v]

\* Line 51: variation = dict(variation), a new dict with the same items.
Line51(v) == [shared |-> FALSE, dict |-> v]

\* The caller's dict after the call: the store of lines 60 and 78 reaches it
\* only if `variation` still names it.
AfterCall(c, r) == Outcome(r, IF c.shared /\ ~r.raised THEN r.ret ELSE c.dict)

\* ensure_youtube_metadata(v): line 51, then lines 53-83 on its result.
ensure_youtube_metadata(v) == AfterCall(Line51(v), Reconcile(Line51(v).dict))

\* ------------------------------------------------------------------------
\* DataExporter.export
\* ------------------------------------------------------------------------

\* A path is its stem and its suffix, the suffix as lexemes.
\* Path.with_suffix(suffix)
with_suffix(path, suffix) == [path EXCEPT !.suffix = suffix]

\* Line 29 as a slip would write it: the output path itself.
TmpPathIsOutput(output) == output

\* Line 29: self.output_path.with_suffix(self.output_path.suffix + ".tmp")
TmpPath(output) == with_suffix(output, output.suffix \o <<".tmp">>)

\* A file is what was written to it so far: the items of the JSON list and
\* whether the list was closed.
Missing == [exists |-> FALSE, items |-> <<>>, closed |-> FALSE]

\* tmp_path.open("w"): the file exists and is empty.
Truncated == [exists |-> TRUE, items |-> <<>>, closed |-> FALSE]

\* A record is "plain" (JSON types only), "object" (holds a value json
\* cannot encode, handed to default_serializer) or "cyclic" (refers to
\* itself: json.dump raises ValueError).
RecordKinds == {"plain", "object", "cyclic"}

Encodable(record) == record # "cyclic"

\* Lines 35-39 and 42-48: the text json.dump writes for one record;
\* default_serializer turns an unencodable value into str(obj).
Encode(record) == [of |-> record, stringified |-> record = "object"]

\* Lines 42-48, one chunk: the next record is written to the file.
WriteNext(file, records_list) ==
    [file EXCEPT !.items = Append(@, Encode(records_list[Len(@) + 1]))]

\* Line 51: tmp_path.replace(self.output_path)
ReplaceFile(files, from, to) == [files EXCEPT ![from] = Missing, ![to] = files[from]]

\* ------------------------------------------------------------------------
\* main
\* ------------------------------------------------------------------------

\* load_settings, line 36: settings.setdefault("concurrency", 4)
DefaultConcurrency == 4

\* Line 213: int(settings.get("concurrency", 4) or 1), the setting being
\* missing, null or an integer.
Concurrency(setting) ==
    IF setting.k = "absent" THEN DefaultConcurrency
    ELSE IF setting.k = "null" \/ setting.n = 0 THEN 1
    ELSE setting.n

\* Lines 125-146: the parsed ads, or [] when fetching or parsing raised.
\* parse_advertiser_ads is outside these sources: what it does for an
\* advertiser (raise, or return a list of ads) is an input of the model.
process_advertiser(advertiser) ==
    IF advertiser.raises THEN <<>> ELSE advertiser.ads

\* Lines 219 and 229 as a slip would write them: all_ads = result
Overwrite(list, items) == items

\* Lines 219 and 229: all_ads.extend(result)
Extend(list, items) == list \o items

\* Line 216: concurrency <= 1 or len(advertisers) == 1
Sequential(setting, advertisers) ==
    Concurrency(setting) <= 1 \/ Len(advertisers) = 1

\* ------------------------------------------------------------------------
\* State
\* ------------------------------------------------------------------------

VARIABLES
    \* one call of _extract_video_id_from_url
    url,            \* the str argument, as lexemes
    tail,           \* lexemes appended to the head so far
    xpc,            \* "build" while the caller composes the URL, then "done"
    extracted,      \* what the call returned
    \* one caller of ensure_youtube_metadata
    variation,      \* the caller's dict
    before,         \* the caller's dict as it was when the call began
    returned,       \* the dict the first call returned
    again,          \* the dict the call on `returned` returned
    calls,          \* extractor invocations of the first call
    rpc,            \* "build", "returned", "raised", "again", "raisedAgain"
    \* concurrent callers of ensure_youtube_metadata
    inputs,         \* the callers' dicts, by name
    inputs0,        \* the callers' dicts as they were at the start
    arg,            \* arg[w]: the name of the dict worker w was given
    wpc,            \* wpc[w]: the line worker w is at
    loc,            \* loc[w]: the local variables of worker w's call
    ret,            \* ret[w]: what worker w's call returned
    \* DataExporter.export
    output_path,    \* self.output_path
    records_list,   \* line 25
    fs,             \* the files at the output path and the temporary path
    fs0,            \* the files as they were when export was called
    epc,            \* "open", "write", "replace", "returned", "failed"
    \* main
    advertisers,    \* the valid advertisers, each with what processing it does
    setting,        \* settings["concurrency"]
    all_ads,        \* line 211
    task,           \* task[i]: the state of the future of advertiser i
    result,         \* result[i]: the value of that future
    extends,        \* who extended all_ads, with which advertiser's ads
    next_i,         \* the advertiser the loop of line 218 or 222 is at
    mpc,            \* where main is
    exit_code       \* what main returned

exVars == <<url, tail, xpc, extracted>>

rcVars == <<variation, before, returned, again, calls, rpc>>

ccVars == <<inputs, inputs0, arg, wpc, loc, ret>>

xpVars == <<output_path, records_list, fs, fs0, epc>>

mnVars == <<advertisers, setting, all_ads, task, result, extends, next_i, mpc,
            exit_code>>

vars == <<exVars, rcVars, ccVars, xpVars, mnVars>>

\* The default of settings.output.path (line 37), without its directory.
DefaultOutput == [stem |-> "output", suffix |-> <<".json">>]

ExIdle ==
    /\ url = <<>>
    /\ tail = 0
    /\ xpc = "idle"
    /\ extracted = Returned(NoneVal)

RcIdle ==
    /\ variation = EmptyVariation
    /\ before = EmptyVariation
    /\ returned = EmptyVariation
    /\ again = EmptyVariation
    /\ calls = 0
    /\ rpc = "idle"

CcIdle ==
    /\ inputs = <<>>
    /\ inputs0 = <<>>
    /\ arg = <<>>
    /\ wpc = <<>>
    /\ loc = <<>>
    /\ ret = <<>>

XpIdle ==
    /\ output_path = DefaultOutput
    /\ records_list = <<>>
    /\ fs = <<>>
    /\ fs0 = <<>>
    /\ epc = "idle"

MnIdle ==
    /\ advertisers = <<>>
    /\ setting = [k |-> "absent", n |-> 0]
    /\ all_ads = <<>>
    /\ task = <<>>
    /\ result = <<>>
    /\ extends = <<>>
    /\ next_i = 0
    /\ mpc = "idle"
    /\ exit_code = -1

\* ------------------------------------------------------------------------
\* SpecExtract: the extractor on every URL made of a head and a tail
\* ------------------------------------------------------------------------

\* https://www.youtube.com/watch
HeadWatch == <<"https:", "/", "/", "www.", "youtube.com", "/", "watch">>

Heads ==
    { <<>>,
      <<"https:", "/", "/", "youtube.com">>,
      <<"/", "/", "m.", "youtube.com">>,
      HeadWatch,
      <<"https:", "/", "/", "youtu.be">>,
      <<"https:", "/", "/", "youtu.be", ".", "youtube.com">>,
      <<"https:", "/", "/", "x.org">>,
      <<"https:", "youtube.com">>,
      <<"http:", "/", "/", "[", "youtube.com">> }

TailLexemes == {"/", "?", "#", "&", "=", "+", "v", "a"}

ExInit ==
    /\ url \in Heads
    /\ tail = 0
    /\ xpc = "build"
    /\ extracted = Returned(NoneVal)
    /\ RcIdle /\ CcIdle /\ XpIdle /\ MnIdle

\* The caller extends the URL by one lexeme.
AppendLexeme(t) ==
    /\ xpc = "build"
    /\ tail < MaxTail
    /\ url' = Append(url, t)
    /\ tail' = tail + 1
    /\ UNCHANGED <<xpc, extracted>>

\* _extract_video_id_from_url(url)
Extract ==
    /\ xpc = "build"
    /\ extracted' = extract_video_id_from_url(Str(url))
    /\ xpc' = "done"
    /\ UNCHANGED <<url, tail>>

ExNext ==
    \/ \E t \in TailLexemes : AppendLexeme(t) /\ UNCHANGED <<rcVars, ccVars, xpVars, mnVars>>
    \/ Extract /\ UNCHANGED <<rcVars, ccVars, xpVars, mnVars>>

SpecExtract == ExInit /\ [][ExNext]_vars

\* ------------------------------------------------------------------------
\* Spec: a caller builds a variation, reconciles it, reconciles the result
\* ------------------------------------------------------------------------

\* https://www.youtube.com/watch?v=abc123
UrlWatch == HeadWatch \o <<"?", "v", "=", "abc123">>

\* https://youtu.be/other
UrlShort == <<"https:", "/", "/", "youtu.be", "/", "other">>

UrlValues ==
    { NoneVal, EmptyStr, Str(UrlWatch), Str(UrlShort), Str(<<"A">>),
      Str(<<"B">>), IntVal("7"), IntVal("0"), BytesVal(UrlShort) }

CtaValues == {NoneVal, EmptyStr, Str(<<"C">>), Str(<<"D">>), ListVal(<<"x">>)}

AdIdValues == {NoneVal, EmptyStr, Str(<<"keep-me">>), IntVal("7"), IntVal("0")}

OtherValues == {NoneVal, Str(<<"T">>)}

ValuesOf(key) ==
    CASE key \in {"youtubeUrl", "videoUrl", "url"} -> UrlValues
      [] key \in {"ctaUrl", "cta"} -> CtaValues
      [] key = "adId" -> AdIdValues
      [] OTHER -> OtherValues

\* What youtubeMetadata can be: a mapping, None, a str, a list.
MetaKinds == {"dict", "none", "str", "list"}

FieldCount(v) ==
    Cardinality({key \in TopKeys : v[key].k # "absent"})
    + Cardinality({key \in NestedKeys : v.youtubeMetadata.f[key].k # "absent"})

Init ==
    /\ variation = EmptyVariation
    /\ before = EmptyVariation
    /\ returned = EmptyVariation
    /\ again = EmptyVariation
    /\ calls = 0
    /\ rpc = "build"
    /\ ExIdle /\ CcIdle /\ XpIdle /\ MnIdle

\* variation[key] = val
SetTop(key, val) ==
    /\ rpc = "build"
    /\ FieldCount(variation) < MaxFields
    /\ variation[key].k = "absent"
    /\ variation' = [variation EXCEPT ![key] = val]
    /\ UNCHANGED <<before, returned, again, calls, rpc>>

\* variation["youtubeMetadata"] = {} or a value that is no mapping
SetMeta(kind) ==
    /\ rpc = "build"
    /\ variation.youtubeMetadata.k = "absent"
    /\ variation' = [variation EXCEPT !.youtubeMetadata.k = kind]
    /\ UNCHANGED <<before, returned, again, calls, rpc>>

\* variation["youtubeMetadata"][key] = val
SetNested(key, val) ==
    /\ rpc = "build"
    /\ FieldCount(variation) < MaxFields
    /\ variation.youtubeMetadata.k = "dict"
    /\ variation.youtubeMetadata.f[key].k = "absent"
    /\ variation' = [variation EXCEPT !.youtubeMetadata.f[key] = val]
    /\ UNCHANGED <<before, returned, again, calls, rpc>>

\* returned = ensure_youtube_metadata(variation)
Call ==
    /\ rpc = "build"
    /\ \E r \in {ensure_youtube_metadata(variation)} :
           /\ variation' = r.arg
           /\ before' = variation
           /\ calls' = r.calls
           /\ returned' = IF r.raised THEN returned ELSE r.ret
           /\ rpc' = IF r.raised THEN "raised" ELSE "returned"
    /\ UNCHANGED again

\* again = ensure_youtube_metadata(returned)
CallAgain ==
    /\ rpc = "returned"
    /\ \E r \in {ensure_youtube_metadata(returned)} :
           /\ returned' = r.arg
           /\ again' = IF r.raised THEN again ELSE r.ret
           /\ rpc' = IF r.raised THEN "raisedAgain" ELSE "again"
    /\ UNCHANGED <<variation, before, calls>>

Next ==
    \/ \E key \in TopKeys : \E val \in ValuesOf(key) :
          SetTop(key, val) /\ UNCHANGED <<exVars, ccVars, xpVars, mnVars>>
    \/ \E kind \in MetaKinds :
          SetMeta(kind) /\ UNCHANGED <<exVars, ccVars, xpVars, mnVars>>
    \/ \E key \in NestedKeys : \E val \in ValuesOf(key) :
          SetNested(key, val) /\ UNCHANGED <<exVars, ccVars, xpVars, mnVars>>
    \/ Call /\ UNCHANGED <<exVars, ccVars, xpVars, mnVars>>
    \/ CallAgain /\ UNCHANGED <<exVars, ccVars, xpVars, mnVars>>

Spec == Init /\ [][Next]_vars

\* ------------------------------------------------------------------------
\* SpecConc: workers call ensure_youtube_metadata at the same time, line by
\* line, on dicts they may share
\* ------------------------------------------------------------------------

Workers == 1..NumWorkers

InputNames == {"a", "b"}

\* Case B with a legacy alias; Case A with legacy aliases beside top-level
\* keys; Case A with an adId; a bytes URL; a youtubeMetadata that is no
\* mapping.
ConcVariations ==
    { [EmptyVariation EXCEPT !.videoUrl = Str(UrlWatch), !.cta = Str(<<"C">>)],
      [EmptyVariation EXCEPT !.youtubeUrl = Str(<<"A">>),
                             !.youtubeMetadata.k = "dict",
                             !.youtubeMetadata.f.url = Str(UrlShort),
                             !.youtubeMetadata.f.cta = Str(<<"D">>)],
      [EmptyVariation EXCEPT !.youtubeMetadata.k = "dict",
                             !.youtubeMetadata.f.adId = Str(<<"keep-me">>),
                             !.youtubeMetadata.f.youtubeUrl = Str(UrlShort)],
      [EmptyVariation EXCEPT !.youtubeUrl = BytesVal(UrlShort)],
      [EmptyVariation EXCEPT !.youtubeMetadata.k = "str",
                             !.url = Str(UrlShort),
                             !.title = Str(<<"T">>)] }

NoLocals ==
    [shared |-> FALSE, dict |-> EmptyVariation, existing_meta |-> NoMeta,
     youtube_url |-> NoneVal, cta_url |-> NoneVal, ad_id |-> NoneVal]

CcInit ==
    /\ inputs \in [InputNames -> ConcVariations]
    /\ inputs0 = inputs
    /\ arg \in [Workers -> InputNames]
    /\ wpc = [w \in Workers |-> "line51"]
    /\ loc = [w \in Workers |-> NoLocals]
    /\ ret = [w \in Workers |-> EmptyVariation]
    /\ ExIdle /\ RcIdle /\ XpIdle /\ MnIdle

\* The dict worker w's `variation` names.
Deref(w) == IF loc[w].shared THEN inputs[arg[w]] ELSE loc[w].dict

IsDict(w) == loc[w].existing_meta.k = "dict"

\* Line 51
WCopy(w) ==
    /\ wpc[w] = "line51"
    /\ \E c \in {Line51(inputs[arg[w]])} :
          loc' = [loc EXCEPT ![w].shared = c.shared, ![w].dict = c.dict]
    /\ wpc' = [wpc EXCEPT ![w] = "line53"]
    /\ UNCHANGED <<inputs, inputs0, arg, ret>>

\* Lines 53-54
WMeta(w) ==
    /\ wpc[w] = "line53"
    /\ loc' = [loc EXCEPT ![w].existing_meta = Deref(w).youtubeMetadata]
    /\ wpc' = [wpc EXCEPT ![w] = "url"]
    /\ UNCHANGED <<inputs, inputs0, arg, ret>>

\* Line 56 or lines 68-73
WUrl(w) ==
    /\ wpc[w] = "url"
    /\ loc' = [loc EXCEPT ![w].youtube_url =
                  IF IsDict(w) THEN NestedYoutubeUrl(loc[w].existing_meta.f)
                  ELSE TopYoutubeUrl(Deref(w))]
    /\ wpc' = [wpc EXCEPT ![w] = "cta"]
    /\ UNCHANGED <<inputs, inputs0, arg, ret>>

\* Line 57 or line 74
WCta(w) ==
    /\ wpc[w] = "cta"
    /\ loc' = [loc EXCEPT ![w].cta_url =
                  IF IsDict(w) THEN NestedCtaUrl(loc[w].existing_meta.f)
                  ELSE TopCtaUrl(Deref(w))]
    /\ wpc' = [wpc EXCEPT ![w] = "adid"]
    /\ UNCHANGED <<inputs, inputs0, arg, ret>>

\* Line 58 or line 76
WAdId(w) ==
    /\ wpc[w] = "adid"
    /\ \E ad \in {AdId(IF IsDict(w) THEN Get(loc[w].existing_meta.f, "adId")
                       ELSE NoneVal,
                       loc[w].youtube_url)} :
          /\ loc' = [loc EXCEPT ![w].ad_id = ad.value]
          /\ wpc' = [wpc EXCEPT ![w] = IF ad.raised THEN "raised" ELSE "store"]
    /\ UNCHANGED <<inputs, inputs0, arg, ret>>

\* Lines 60-65 or 78-83
WStore(w) ==
    /\ wpc[w] = "store"
    /\ \E new \in {[Deref(w) EXCEPT !.youtubeMetadata =
                       NewMeta(loc[w].ad_id, loc[w].youtube_url, loc[w].cta_url)]} :
          /\ inputs' = IF loc[w].shared THEN [inputs EXCEPT ![arg[w]] = new]
                       ELSE inputs
          /\ loc' = IF loc[w].shared THEN loc ELSE [loc EXCEPT ![w].dict = new]
          /\ ret' = [ret EXCEPT ![w] = new]
    /\ wpc' = [wpc EXCEPT ![w] = "done"]
    /\ UNCHANGED <<inputs0, arg>>

CcNext ==
    \/ \E w \in Workers : WCopy(w) /\ UNCHANGED <<exVars, rcVars, xpVars, mnVars>>
    \/ \E w \in Workers : WMeta(w) /\ UNCHANGED <<exVars, rcVars, xpVars, mnVars>>
    \/ \E w \in Workers : WUrl(w) /\ UNCHANGED <<exVars, rcVars, xpVars, mnVars>>
    \/ \E w \in Workers : WCta(w) /\ UNCHANGED <<exVars, rcVars, xpVars, mnVars>>
    \/ \E w \in Workers : WAdId(w) /\ UNCHANGED <<exVars, rcVars, xpVars, mnVars>>
    \/ \E w \in Workers : WStore(w) /\ UNCHANGED <<exVars, rcVars, xpVars, mnVars>>

SpecConc == CcInit /\ [][CcNext]_vars

\* ------------------------------------------------------------------------
\* SpecExport: one call of DataExporter.export
\* ------------------------------------------------------------------------

OutputPaths == {DefaultOutput, [stem |-> "output", suffix |-> <<>>]}

\* What a previous run left at a path.
OldFile == [exists |-> TRUE, items |-> <<Encode("plain")>>, closed |-> TRUE]

\* Every list of at most MaxRecords records.
RecordLists ==
    UNION {[1..n -> RecordKinds] : n \in 0..MaxRecords}

PathsOf(output) == {output, TmpPath(output)}

XpInit ==
    /\ output_path \in OutputPaths
    /\ records_list \in RecordLists
    /\ fs \in [PathsOf(output_path) -> {Missing, OldFile}]
    /\ fs0 = fs
    /\ epc = "open"
    /\ ExIdle /\ RcIdle /\ CcIdle /\ MnIdle

\* Lines 25-41: the temporary file is created, or emptied if it exists.
XOpen ==
    /\ epc = "open"
    /\ fs' = [fs EXCEPT ![TmpPath(output_path)] = Truncated]
    /\ epc' = "write"
    /\ UNCHANGED <<output_path, records_list, fs0>>

\* Lines 42-48: json.dump writes the next record.
XWrite ==
    /\ epc = "write"
    /\ Len(fs[TmpPath(output_path)].items) < Len(records_list)
    /\ Encodable(records_list[Len(fs[TmpPath(output_path)].items) + 1])
    /\ fs' = [fs EXCEPT ![TmpPath(output_path)] = WriteNext(@, records_list)]
    /\ UNCHANGED <<output_path, records_list, fs0, epc>>

\* Lines 42-48 and the end of the with block: the list is closed and the
\* file is flushed.
XClose ==
    /\ epc = "write"
    /\ Len(fs[TmpPath(output_path)].items) = Len(records_list)
    /\ fs' = [fs EXCEPT ![TmpPath(output_path)].closed = TRUE]
    /\ epc' = "replace"
    /\ UNCHANGED <<output_path, records_list, fs0>>

\* Line 51
XReplace ==
    /\ epc = "replace"
    /\ fs' = ReplaceFile(fs, TmpPath(output_path), output_path)
    /\ epc' = "returned"
    /\ UNCHANGED <<output_path, records_list, fs0>>

\* An exception leaves export: OSError from mkdir, open, write, close or
\* replace, or ValueError from json.dump on a record it cannot encode.
XRaise ==
    /\ epc \in {"open", "write", "replace"}
    /\ epc' = "failed"
    /\ UNCHANGED <<output_path, records_list, fs, fs0>>

XpNext ==
    \/ XOpen /\ UNCHANGED <<exVars, rcVars, ccVars, mnVars>>
    \/ XWrite /\ UNCHANGED <<exVars, rcVars, ccVars, mnVars>>
    \/ XClose /\ UNCHANGED <<exVars, rcVars, ccVars, mnVars>>
    \/ XReplace /\ UNCHANGED <<exVars, rcVars, ccVars, mnVars>>
    \/ XRaise /\ UNCHANGED <<exVars, rcVars, ccVars, mnVars>>

SpecExport == XpInit /\ [][XpNext]_vars

\* ------------------------------------------------------------------------
\* SpecMain: main from line 207 on, with the thread pool's workers
\* ------------------------------------------------------------------------

\* What processing an advertiser does: fetching or parsing raises, or
\* parse_advertiser_ads returns these ads.
AdvertiserChoices ==
    { [raises |-> TRUE, ads |-> <<"plain">>],
      [raises |-> FALSE, ads |-> <<>>],
      [raises |-> FALSE, ads |-> <<"plain">>],
      [raises |-> FALSE, ads |-> <<"object", "plain">>] }

AdvertiserLists ==
    UNION {[1..n -> AdvertiserChoices] : n \in 0..MaxAdvertisers}

\* settings["concurrency"]: missing, null, or an integer.
ConcurrencySettings ==
    {[k |-> "absent", n |-> 0], [k |-> "null", n |-> 0]}
    \cup {[k |-> "int", n |-> n] : n \in -1..2}

MnInit ==
    /\ advertisers \in AdvertiserLists
    /\ setting \in ConcurrencySettings
    /\ all_ads = <<>>
    /\ task = [i \in DOMAIN advertisers |-> "new"]
    /\ result = [i \in DOMAIN advertisers |-> <<>>]
    /\ extends = <<>>
    /\ next_i = 1
    /\ mpc = "start"
    /\ exit_code = -1
    /\ output_path = DefaultOutput
    /\ records_list = <<>>
    /\ fs \in {[p \in PathsOf(DefaultOutput) |->
                   IF p = DefaultOutput THEN old ELSE Missing] :
               old \in {Missing, OldFile}}
    /\ fs0 = fs
    /\ epc = "idle"
    /\ ExIdle /\ RcIdle /\ CcIdle

\* Lines 207-209
MNoAdvertisers ==
    /\ mpc = "start"
    /\ advertisers = <<>>
    /\ mpc' = "exited"
    /\ exit_code' = 1
    /\ UNCHANGED <<advertisers, setting, all_ads, task, result, extends, next_i>>

\* Lines 211-216
MBranch ==
    /\ mpc = "start"
    /\ advertisers # <<>>
    /\ mpc' = IF Sequential(setting, advertisers) THEN "loop" ELSE "submit"
    /\ UNCHANGED <<advertisers, setting, all_ads, task, result, extends, next_i,
                   exit_code>>

\* Lines 218-219, one advertiser
MLoop ==
    /\ mpc = "loop"
    /\ all_ads' = Extend(all_ads, process_advertiser(advertisers[next_i]))
    /\ extends' = Append(extends, [by |-> "main", adv |-> next_i])
    /\ next_i' = next_i + 1
    /\ mpc' = IF next_i = Len(advertisers) THEN "export" ELSE "loop"
    /\ UNCHANGED <<advertisers, setting, task, result, exit_code>>

\* Lines 222-225, one executor.submit
MSubmit ==
    /\ mpc = "submit"
    /\ task' = [task EXCEPT ![next_i] = "queued"]
    /\ next_i' = next_i + 1
    /\ mpc' = IF next_i = Len(advertisers) THEN "collect" ELSE "submit"
    /\ UNCHANGED <<advertisers, setting, all_ads, result, extends, exit_code>>

\* A pool thread takes the oldest queued task; the pool has at most
\* max_workers threads (line 221).
TStart(i) ==
    /\ task[i] = "queued"
    /\ \A j \in DOMAIN task : j < i => task[j] # "queued"
    /\ Cardinality({j \in DOMAIN task : task[j] = "running"}) < Concurrency(setting)
    /\ task' = [task EXCEPT ![i] = "running"]
    /\ UNCHANGED <<advertisers, setting, all_ads, result, extends, next_i, mpc,
                   exit_code>>

\* The pool thread runs process_advertiser and sets the future's result.
TFinish(i) ==
    /\ task[i] = "running"
    /\ result' = [result EXCEPT ![i] = process_advertiser(advertisers[i])]
    /\ task' = [task EXCEPT ![i] = "finished"]
    /\ UNCHANGED <<advertisers, setting, all_ads, extends, next_i, mpc, exit_code>>

\* Lines 226-229: as_completed yields a finished future, main extends.
MCollect(i) ==
    /\ mpc = "collect"
    /\ task[i] = "finished"
    /\ all_ads' = Extend(all_ads, result[i])
    /\ extends' = Append(extends, [by |-> "main", adv |-> i])
    /\ task' = [task EXCEPT ![i] = "collected"]
    /\ mpc' = IF \A j \in DOMAIN task : j # i => task[j] = "collected"
              THEN "export" ELSE "collect"
    /\ UNCHANGED <<advertisers, setting, result, next_i, exit_code>>

\* Lines 240-244: exporter.export(all_ads) begins.
MExport ==
    /\ mpc = "export"
    /\ records_list' = all_ads
    /\ fs0' = fs
    /\ epc' = "open"
    /\ mpc' = "exporting"
    /\ UNCHANGED <<advertisers, setting, all_ads, task, result, extends, next_i,
                   exit_code, output_path, fs>>

\* Lines 245-250
MExit ==
    /\ mpc = "exporting"
    /\ epc \in {"returned", "failed"}
    /\ exit_code' = IF epc = "returned" THEN 0 ELSE 1
    /\ mpc' = "exited"
    /\ UNCHANGED <<advertisers, setting, all_ads, task, result, extends, next_i>>

MnNext ==
    \/ MNoAdvertisers /\ UNCHANGED <<exVars, rcVars, ccVars, xpVars>>
    \/ MBranch /\ UNCHANGED <<exVars, rcVars, ccVars, xpVars>>
    \/ MLoop /\ UNCHANGED <<exVars, rcVars, ccVars, xpVars>>
    \/ MSubmit /\ UNCHANGED <<exVars, rcVars, ccVars, xpVars>>
    \/ \E i \in DOMAIN task : TStart(i) /\ UNCHANGED <<exVars, rcVars, ccVars, xpVars>>
    \/ \E i \in DOMAIN task : TFinish(i) /\ UNCHANGED <<exVars, rcVars, ccVars, xpVars>>
    \/ \E i \in DOMAIN task : MCollect(i) /\ UNCHANGED <<exVars, rcVars, ccVars, xpVars>>
    \/ MExport /\ UNCHANGED <<exVars, rcVars, ccVars>>
    \/ XpNext
    \/ MExit /\ UNCHANGED <<exVars, rcVars, ccVars, xpVars>>

SpecMain == MnInit /\ [][MnNext]_vars

\* ------------------------------------------------------------------------
\* Claims about ensure_youtube_metadata, checked under Spec
\* ------------------------------------------------------------------------

MetaKeys == {"adId", "youtubeUrl", "ctaUrl"}

\* The first call has ended, by a return or by an exception.
Called == rpc \in {"returned", "raised", "again", "raisedAgain"}

\* The first call returned a variation.
HasReturned == rpc \in {"returned", "again", "raisedAgain"}

\* C1: the returned variation's youtubeMetadata is a mapping with exactly
\* the keys adId, youtubeUrl and ctaUrl, and each of the three values is a
\* string.
C1_MetadataIsThreeStrings ==
    HasReturned =>
        /\ returned.youtubeMetadata.k = "dict"
        /\ \A key \in NestedKeys :
              IF key \in MetaKeys
              THEN returned.youtubeMetadata.f[key].k = "str"
              ELSE returned.youtubeMetadata.f[key].k = "absent"

\* C2: no call of ensure_youtube_metadata ends by an exception.
C2_NeverRaises == rpc \notin {"raised", "raisedAgain"}

\* C3: the call leaves the caller's variation as it was, and the returned
\* variation has the input's keys plus youtubeMetadata, every key other than
\* youtubeMetadata bound to the input's value.
C3_OnlyMetadataChanges ==
    /\ Called => variation = before
    /\ HasReturned =>
          /\ \A key \in TopKeys : returned[key] = before[key]
          /\ returned.youtubeMetadata.k # "absent"

\* An input with another key and its own youtubeMetadata, which the call
\* replaced in the result and kept in the input.
C3_Witness ==
    /\ rpc = "returned"
    /\ before.title = Str(<<"T">>)
    /\ before.youtubeMetadata.k = "dict"
    /\ Truthy(before.youtubeMetadata.f.url)
    /\ returned.youtubeMetadata # before.youtubeMetadata
    /\ variation.youtubeMetadata = before.youtubeMetadata

\* C4: reconciling the result of a call returns, and returns a variation
\* equal to that result in every key and in all three metadata fields.
C4_Idempotent ==
    /\ rpc # "raisedAgain"
    /\ rpc = "again" => again = returned

\* A first pass that took youtubeUrl from the legacy alias videoUrl and left
\* adId empty, reconciled again.
C4_Witness ==
    /\ rpc = "again"
    /\ before.youtubeMetadata.k # "dict"
    /\ ~Truthy(before.youtubeUrl)
    /\ Truthy(before.videoUrl)
    /\ returned.youtubeMetadata.f.youtubeUrl = before.videoUrl
    /\ returned.youtubeMetadata.f.adId = EmptyStr

\* The nested youtubeMetadata is a mapping with a non-empty adId.
HasAdId(v) == v.youtubeMetadata.k = "dict" /\ Truthy(v.youtubeMetadata.f.adId)

\* C5: one call invokes the extractor at most once, and not at all when the
\* nested youtubeMetadata is a mapping with a non-empty adId; the output
\* adId is then that adId.
C5_ExtractorOnlyWithoutAdId ==
    Called =>
        /\ calls <= 1
        /\ HasAdId(before) =>
              /\ calls = 0
              /\ rpc # "raised"
              /\ returned.youtubeMetadata.f.adId = before.youtubeMetadata.f.adId

\* youtubeMetadata = {adId: "keep-me", youtubeUrl: "https://youtu.be/other"}
C5_Witness ==
    /\ rpc = "returned"
    /\ before.youtubeMetadata.f.adId = Str(<<"keep-me">>)
    /\ before.youtubeMetadata.f.youtubeUrl = Str(UrlShort)
    /\ extract_video_id_from_url(Str(UrlShort)).value = Str(<<"other">>)
    /\ returned.youtubeMetadata.f.adId = Str(<<"keep-me">>)
    /\ calls = 0

\* The first non-empty value of a list of candidates, else "".
RECURSIVE FirstNonEmpty(_)
FirstNonEmpty(candidates) ==
    IF candidates = <<>> THEN EmptyStr
    ELSE IF Truthy(Head(candidates)) THEN Head(candidates)
    ELSE FirstNonEmpty(Tail(candidates))

\* C6 as stated: the output youtubeUrl is the first non-empty value among
\* nested youtubeUrl, nested url, top-level youtubeUrl, videoUrl, url.
C6_SingleChain ==
    rpc = "returned" =>
        returned.youtubeMetadata.f.youtubeUrl =
            FirstNonEmpty(<<before.youtubeMetadata.f.youtubeUrl,
                            before.youtubeMetadata.f.url,
                            before.youtubeUrl, before.videoUrl, before.url>>)

\* C6 as amended: when youtubeMetadata is a mapping the output youtubeUrl is
\* the first non-empty value among nested youtubeUrl and nested url, and the
\* top-level keys are not consulted; otherwise it is the first non-empty
\* value among top-level youtubeUrl, videoUrl, url; "" when none is.
C6_ChainPerCase ==
    rpc = "returned" =>
        returned.youtubeMetadata.f.youtubeUrl =
            IF before.youtubeMetadata.k = "dict"
            THEN FirstNonEmpty(<<before.youtubeMetadata.f.youtubeUrl,
                                 before.youtubeMetadata.f.url>>)
            ELSE FirstNonEmpty(<<before.youtubeUrl, before.videoUrl, before.url>>)

\* A mapping with no URL of its own beside a non-empty top-level youtubeUrl:
\* the output youtubeUrl is "".
C6_Witness ==
    /\ rpc = "returned"
    /\ before.youtubeMetadata.k = "dict"
    /\ Truthy(before.youtubeUrl)
    /\ returned.youtubeMetadata.f.youtubeUrl = EmptyStr

\* ------------------------------------------------------------------------
\* Claim about _extract_video_id_from_url, checked under SpecExtract
\* ------------------------------------------------------------------------

\* The fields of the query, in order, that are "v=<non-empty value>".
VFields(query) ==
    LET fields == Split(query, "&")
    IN  SelectSeq(fields,
                  LAMBDA f : Len(f) >= 3 /\ f[1] = "v" /\ f[2] = "=")

\* The text after the last "/" of the path without its trailing slashes.
RuleLastSegment(path) ==
    LET p == RStrip(path, "/")
        slashes == {i \in 1..Len(p) : p[i] = "/"}
        last == IF slashes = {} THEN 0
                ELSE CHOOSE i \in slashes : \A j \in slashes : j <= i
    IN  From(p, last + 1)

\* The text before the first "/" of the path without its leading slashes.
RuleFirstSegment(path) ==
    LET p == LStrip(path, "/")
        i == FindFirst(p, {"/"}, 1)
    IN  IF i = 0 THEN p ELSE SubSeq(p, 1, i - 1)

RuleOrAbsent(segment) == IF segment = <<>> THEN NoneVal ELSE Str(segment)

RuleId(text) ==
    LET parsed == urlparse(text)
        host == parsed.netloc
    IN  IF text = <<>> THEN NoneVal
        ELSE IF parsed.error THEN NoneVal
        ELSE IF Contains(host, "youtube.com")
             THEN IF VFields(parsed.query) # <<>>
                  THEN Str(Replace(From(VFields(parsed.query)[1], 3), "+", " "))
                  ELSE RuleOrAbsent(RuleLastSegment(parsed.path))
        ELSE IF Contains(host, "youtu.be")
             THEN RuleOrAbsent(RuleFirstSegment(parsed.path))
        ELSE NoneVal

\* C7: for every URL string the extractor returns, without raising, exactly
\* what the five-step rule gives (empty URL, youtube.com query then path,
\* youtu.be path, any other host), and never the empty string.
C7_ExtractorFollowsRule ==
    xpc = "done" =>
        /\ ~extracted.raised
        /\ extracted.value = RuleId(url)
        /\ extracted.value # EmptyStr

\* A host with both substrings, a path whose first and last segments
\* differ, and the youtube.com rule applied.
C7_Witness ==
    /\ xpc = "done"
    /\ Contains(urlparse(url).netloc, "youtube.com")
    /\ Contains(urlparse(url).netloc, "youtu.be")
    /\ RuleFirstSegment(urlparse(url).path) # RuleLastSegment(urlparse(url).path)
    /\ extracted.value = Str(RuleLastSegment(urlparse(url).path))

\* ------------------------------------------------------------------------
\* Claim about concurrent calls, checked under SpecConc
\* ------------------------------------------------------------------------

\* What worker w's call does when it runs alone on its dict.
Alone(w) == ensure_youtube_metadata(inputs0[arg[w]])

\* C8: whatever the interleaving of the workers' lines, every call ends as
\* it does when run alone (same returned variation, or the same exception),
\* and the callers' dicts stay as they were.
C8_ConcurrentCallsIndependent ==
    /\ inputs = inputs0
    /\ \A w \in Workers :
          /\ wpc[w] = "done" => ~Alone(w).raised /\ ret[w] = Alone(w).ret
          /\ wpc[w] = "raised" => Alone(w).raised

\* Two workers on the same dict: one has returned while the other is in the
\* middle of its call.
C8_Witness ==
    /\ arg[1] = arg[2]
    /\ wpc[1] = "done"
    /\ wpc[2] = "cta"
    /\ ret[1] # inputs[arg[1]]
    /\ ret[1] = Alone(1).ret

\* ------------------------------------------------------------------------
\* Claim about DataExporter.export, checked under SpecExport
\* ------------------------------------------------------------------------

\* The complete serialization of a list of records.
Complete(list) ==
    [exists |-> TRUE,
     items |-> [i \in 1..Len(list) |-> Encode(list[i])],
     closed |-> TRUE]

\* C9: during and after an export the file at the output path is what it
\* was before the call or the complete serialization of the records, never
\* a partial one; it changes only by the rename that ends a successful
\* export; a failed export leaves it as it was.
C9_OutputOldOrComplete ==
    /\ fs[output_path] \in {fs0[output_path], Complete(records_list)}
    /\ epc # "returned" => fs[output_path] = fs0[output_path]
    /\ epc = "returned" => fs[output_path] = Complete(records_list)

\* An export that failed partway: the temporary file holds part of the
\* list, the previous output is still in place.
C9_Witness ==
    /\ epc = "failed"
    /\ fs0[output_path] = OldFile
    /\ fs[TmpPath(output_path)].exists
    /\ ~fs[TmpPath(output_path)].closed
    /\ Len(fs[TmpPath(output_path)].items) = 1
    /\ Len(records_list) = 2
    /\ ~Encodable(records_list[2])
    /\ fs[output_path] = OldFile
    /\ fs[output_path] # Complete(records_list)

\* ------------------------------------------------------------------------
\* Claim about main, checked under SpecMain
\* ------------------------------------------------------------------------

\* What the loop of lines 218-219 collects: each advertiser's ads in turn,
\* none for an advertiser whose processing raises.
RECURSIVE SequentialAds(_)
SequentialAds(list) ==
    IF list = <<>> THEN <<>>
    ELSE (IF Head(list).raises THEN <<>> ELSE Head(list).ads)
         \o SequentialAds(Tail(list))

\* A list as a multiset.
BagOf(list) ==
    [x \in {list[i] : i \in DOMAIN list} |->
        Cardinality({i \in DOMAIN list : list[i] = x})]

\* Every advertiser has been processed and main goes on to export.
Collected == mpc \in {"export", "exporting"} \/ (mpc = "exited" /\ advertisers # <<>>)

\* C10: only main extends all_ads, once per advertiser; when all are
\* collected all_ads holds, as a multiset, the ads sequential processing
\* gives, with none from an advertiser whose processing raised; a
\* successful export writes exactly these.
C10_AdsCollectedOnce ==
    /\ \A k \in DOMAIN extends : extends[k].by = "main"
    /\ \A i \in DOMAIN advertisers :
          /\ Cardinality({k \in DOMAIN extends : extends[k].adv = i}) <= 1
          /\ Collected => \E k \in DOMAIN extends : extends[k].adv = i
    /\ Collected => BagOf(all_ads) = BagOf(SequentialAds(advertisers))
    /\ (mpc = "exited" /\ exit_code = 0) =>
          /\ fs[output_path] = Complete(all_ads)
          /\ BagOf(records_list) = BagOf(SequentialAds(advertisers))

\* Two advertisers in the pool: the first raised, the second returned two
\* ads and was collected first; both ads were exported.
C10_Witness ==
    /\ mpc = "exited"
    /\ exit_code = 0
    /\ Len(advertisers) = 2
    /\ advertisers[1].raises
    /\ extends = <<[by |-> "main", adv |-> 2], [by |-> "main", adv |-> 1]>>
    /\ all_ads = <<"object", "plain">>
    /\ fs[output_path] = Complete(<<"object", "plain">>)

====
